---- MODULE Spec2Model ----
(***************************************************************************)
(* Model of backend/src/scripts/transcribe.py: a command-line adapter that *)
(* validates its arguments, loads a faster-whisper model, transcribes one  *)
(* audio file and prints one JSON line.                                    *)
(*                                                                         *)
(* Strings whose content is transformed by the script (segment texts, the  *)
(* transcript, the JSON line, stdout) are sequences of one-character       *)
(* strings, so that concatenation, strip() and json.dumps() are computed.  *)
(* Strings that are only passed along (paths, model sizes) are TLA+        *)
(* strings.  The speech engine is external: every outcome it can have      *)
(* (raise an Exception, return, yield segments, raise while iterating) is  *)
(* a nondeterministic choice at the call.                                  *)
(***************************************************************************)
EXTENDS Integers, Sequences, FiniteSets, TLC

VARIABLES
    argv,            \* sys.argv: argv[1] is the script name, argv[2] the first argument
    pc,              \* position of the process in the script
    file_path,       \* variable file_path of __main__ / parameter of transcribe()
    model_size,      \* variable model_size of __main__ / parameter of transcribe()
    existsCalls,     \* paths os.path.exists was called with, in order
    loaderCalls,     \* model sizes WhisperModel(...) was called with, in order
    loadRaised,      \* WhisperModel(...) raised
    transcribeCalls, \* paths model.transcribe(...) was called with, in order
    engineSegs,      \* texts of the segments the generator yields, in order
    genFails,        \* the generator raises after its last segment instead of stopping
    genPos,          \* number of segments the for loop has pulled from the generator
    genDrained,      \* the generator raised StopIteration to the for loop
    engineRaised,    \* "none", "transcribe" or "iteration": where the engine raised
    language,        \* info.language
    transcript,      \* variable transcript of transcribe()
    result,          \* variable result of transcribe(): the dict, as ordered pairs
    stdout,          \* characters written to standard output
    stderr,          \* diagnostics written to standard error, one tag per line
    exitCode         \* process exit status; -1 while the process runs

vars == <<argv, pc, file_path, model_size, existsCalls, loaderCalls, loadRaised,
          transcribeCalls, engineSegs, genFails, genPos, genDrained, engineRaised,
          language, transcript, result, stdout, stderr, exitCode>>

(***************************************************************************)
(* Bounds and input sets                                                   *)
(***************************************************************************)
MaxSegs == 2        \* longest segment sequence the engine produces

Unbound == "<unbound>"   \* a Python name not assigned yet

Script == "transcribe.py"

\* The filesystem the script runs against: one path of every kind.
FS == [p \in {"audio.wav", "recordings", "locked.wav", "missing.wav"} |->
         CASE p = "audio.wav"   -> "file"
           [] p = "recordings"  -> "directory"
           [] p = "locked.wav"  -> "unreadable"
           [] p = "missing.wav" -> "absent"]

Paths == DOMAIN FS

ModelSizes == {"small", "large-v3", "", "bogus"}

ExtraArgs == {"extra"}

\* Every command line: no argument, a path, a path and a model size, and
\* one further argument.
CommandLines ==
    {<<Script>>}
    \cup {<<Script, p>> : p \in Paths}
    \cup {<<Script, p, m>> : p \in Paths, m \in ModelSizes}
    \cup {<<Script, p, m, x>> : p \in Paths, m \in ModelSizes, x \in ExtraArgs}

Hello == <<"H", "e", "l", "l", "o">>
World == <<"w", "o", "r", "l", "d">>

\* Segment texts the engine may produce: plain words, the empty text, a text
\* with a leading space (the engine's usual form), a text with a quote, a
\* backslash and a trailing newline, and a text of whitespace only.
SegTexts == {Hello, World, <<>>, <<" ", "a">>, <<"\"", "\\", "\n">>, <<" ">>}

Languages == {<<"e", "n">>, <<"h", "i">>}

RECURSIVE SeqsUpTo(_, _)
SeqsUpTo(S, n) ==
    IF n = 0 THEN {<<>>}
    ELSE LET shorter == SeqsUpTo(S, n - 1)
         IN  shorter \cup {Append(s, x) : s \in shorter, x \in S}

SegmentSeqs == SeqsUpTo(SegTexts, MaxSegs)

(***************************************************************************)
(* Library functions used by the script                                    *)
(***************************************************************************)
\* os.path.exists(path): true for any existing entry, whatever its kind.
PathExists(p) == FS[p] # "absent"

\* Characters str.strip() removes.
Whitespace == {" ", "\n", "\t"}

RECURSIVE LStrip(_)
LStrip(s) ==
    IF s # <<>> /\ Head(s) \in Whitespace THEN LStrip(Tail(s)) ELSE s

RECURSIVE RStrip(_)
RStrip(s) ==
    IF s # <<>> /\ s[Len(s)] \in Whitespace
    THEN RStrip(SubSeq(s, 1, Len(s) - 1)) ELSE s

\* str.strip()
Strip(s) == RStrip(LStrip(s))

\* Python values stored in the result dict.
PyStr(s) == [type |-> "str", val |-> s]
PyNone == [type |-> "NoneType"]

\* json.dumps of one character inside a string literal.
JsonEscape(c) ==
    CASE c = "\"" -> <<"\\", "\"">>
      [] c = "\\" -> <<"\\", "\\">>
      [] c = "\n" -> <<"\\", "n">>
      [] c = "\t" -> <<"\\", "t">>
      [] OTHER    -> <<c>>

RECURSIVE JsonEscapeAll(_)
JsonEscapeAll(s) ==
    IF s = <<>> THEN <<>> ELSE JsonEscape(Head(s)) \o JsonEscapeAll(Tail(s))

JsonString(s) == <<"\"">> \o JsonEscapeAll(s) \o <<"\"">>

JsonValue(v) ==
    IF v.type = "str" THEN JsonString(v.val) ELSE <<"n", "u", "l", "l">>

RECURSIVE JsonItems(_)
JsonItems(d) ==
    IF d = <<>> THEN <<>>
    ELSE JsonString(d[1][1]) \o <<":", " ">> \o JsonValue(d[1][2])
         \o (IF Len(d) > 1 THEN <<",", " ">> ELSE <<>>)
         \o JsonItems(Tail(d))

\* json.dumps(d) with the default separators, for a dict of string keys.
JsonDumps(d) == <<"{">> \o JsonItems(d) \o <<"}">>

(***************************************************************************)
(* Expressions of the script                                               *)
(***************************************************************************)
\* Variant: the length test is off by one, a supplied model size is dropped.
ModelSizeArg_OffByOne(av) == IF Len(av) > 3 THEN av[3] ELSE "small"

\* sys.argv[2] if len(sys.argv) > 2 else "small"   (0-based in the source)
ModelSizeArg(av) == IF Len(av) > 2 THEN av[3] ELSE "small"

\* Variant: the segment is put in front of the transcript.
Accumulate_Prepend(t, segText) == segText \o <<" ">> \o t

\* transcript += segment.text + " "
Accumulate(t, segText) == t \o segText \o <<" ">>

KeyProbability == <<"p">>
KeyText == <<"t", "e", "x", "t">>
KeyLanguage == <<"l", "a", "n", "g", "u", "a", "g", "e">>

\* Variant: the detection confidence is added to the dict.
MakeResult_WithProbability(t, lang) ==
    <<  <<KeyText, PyStr(Strip(t))>>, <<KeyLanguage, PyStr(lang)>>,
        <<KeyProbability, PyStr(<<"1">>)>>  >>

\* Variant: an empty transcript becomes None (transcript.strip() or None).
MakeResult_NoneWhenEmpty(t, lang) ==
    <<  <<KeyText, IF Strip(t) = <<>> THEN PyNone ELSE PyStr(Strip(t))>>,
        <<KeyLanguage, PyStr(lang)>>  >>

\* result = {"text": transcript.strip(), "language": info.language}
MakeResult(t, lang) ==
    <<  <<KeyText, PyStr(Strip(t))>>, <<KeyLanguage, PyStr(lang)>>  >>

\* print(x): the text and a newline
PrintLine(out, x) == out \o x \o <<"\n">>

\* sys.exit(code)
Exit(code) == pc' = "done" /\ exitCode' = code

(***************************************************************************)
(* Initial state                                                           *)
(***************************************************************************)
Init ==
    /\ argv \in CommandLines
    /\ pc = "main"
    /\ file_path = Unbound
    /\ model_size = Unbound
    /\ existsCalls = <<>>
    /\ loaderCalls = <<>>
    /\ loadRaised = FALSE
    /\ transcribeCalls = <<>>
    /\ engineSegs = <<>>
    /\ genFails = FALSE
    /\ genPos = 0
    /\ genDrained = FALSE
    /\ engineRaised = "none"
    /\ language = <<>>
    /\ transcript = <<>>
    /\ result = <<>>
    /\ stdout = <<>>
    /\ stderr = <<>>
    /\ exitCode = -1

(***************************************************************************)
(* Steps of the script                                                     *)
(***************************************************************************)
\* Variant: the usage branch ends the process with status 0.
CheckArgs_ExitZero ==
    /\ pc = "main"
    /\ IF Len(argv) < 2
       THEN /\ stderr' = Append(stderr, "usage")
            /\ Exit(0)
       ELSE /\ pc' = "parse"
            /\ UNCHANGED <<stderr, exitCode>>
    /\ UNCHANGED <<argv, file_path, model_size, existsCalls, loaderCalls,
                   loadRaised, transcribeCalls, engineSegs, genFails, genPos,
                   genDrained, engineRaised, language, transcript, result, stdout>>

\* if len(sys.argv) < 2: print usage to stderr; sys.exit(1)
CheckArgs ==
    /\ pc = "main"
    /\ IF Len(argv) < 2
       THEN /\ stderr' = Append(stderr, "usage")
            /\ Exit(1)
       ELSE /\ pc' = "parse"
            /\ UNCHANGED <<stderr, exitCode>>
    /\ UNCHANGED <<argv, file_path, model_size, existsCalls, loaderCalls,
                   loadRaised, transcribeCalls, engineSegs, genFails, genPos,
                   genDrained, engineRaised, language, transcript, result, stdout>>

\* file_path = sys.argv[1]; model_size = sys.argv[2] if ... else "small"
ParseArgs ==
    /\ pc = "parse"
    /\ file_path' = argv[2]
    /\ model_size' = ModelSizeArg(argv)
    /\ pc' = "exists"
    /\ UNCHANGED <<argv, existsCalls, loaderCalls, loadRaised, transcribeCalls,
                   engineSegs, genFails, genPos, genDrained, engineRaised,
                   language, transcript, result, stdout, stderr, exitCode>>

\* Variant: the missing-file branch prints its message but does not exit.
CheckExists_NoExit ==
    /\ pc = "exists"
    /\ existsCalls' = Append(existsCalls, file_path)
    /\ stderr' = IF ~PathExists(file_path)
                 THEN Append(stderr, "file_not_found") ELSE stderr
    /\ pc' = "load"
    /\ UNCHANGED <<argv, file_path, model_size, loaderCalls, loadRaised,
                   transcribeCalls, engineSegs, genFails, genPos, genDrained,
                   engineRaised, language, transcript, result, stdout, exitCode>>

\* if not os.path.exists(file_path): print "File not found"; sys.exit(1)
\* otherwise call transcribe(file_path, model_size)
CheckExists ==
    /\ pc = "exists"
    /\ existsCalls' = Append(existsCalls, file_path)
    /\ IF ~PathExists(file_path)
       THEN /\ stderr' = Append(stderr, "file_not_found")
            /\ Exit(1)
       ELSE /\ pc' = "load"
            /\ UNCHANGED <<stderr, exitCode>>
    /\ UNCHANGED <<argv, file_path, model_size, loaderCalls, loadRaised,
                   transcribeCalls, engineSegs, genFails, genPos, genDrained,
                   engineRaised, language, transcript, result, stdout>>

\* Variant: the handler of the model load prints its message but does not exit.
LoadModel_NoExit ==
    /\ pc = "load"
    /\ loaderCalls' = Append(loaderCalls, model_size)
    /\ \E raises \in BOOLEAN :
          /\ loadRaised' = raises
          /\ stderr' = IF raises THEN stderr \o <<"loading", "error_loading">>
                       ELSE Append(stderr, "loading")
    /\ pc' = "transcribe"
    /\ UNCHANGED <<argv, file_path, model_size, existsCalls, transcribeCalls,
                   engineSegs, genFails, genPos, genDrained, engineRaised,
                   language, transcript, result, stdout, exitCode>>

\* print "Loading model"; try: model = WhisperModel(model_size, ...)
\* except Exception: print "Error loading model"; sys.exit(1)
LoadModel ==
    /\ pc = "load"
    /\ loaderCalls' = Append(loaderCalls, model_size)
    /\ \E raises \in BOOLEAN :
          /\ loadRaised' = raises
          /\ IF raises
             THEN /\ stderr' = stderr \o <<"loading", "error_loading">>
                  /\ Exit(1)
             ELSE /\ stderr' = Append(stderr, "loading")
                  /\ pc' = "transcribe"
                  /\ UNCHANGED exitCode
    /\ UNCHANGED <<argv, file_path, model_size, existsCalls, transcribeCalls,
                   engineSegs, genFails, genPos, genDrained, engineRaised,
                   language, transcript, result, stdout>>

\* print "Transcribing"; try: segments, info = model.transcribe(file_path, beam_size=1)
\* print "Detected language"; transcript = ""
\* except Exception: print "Error during transcription"; sys.exit(1)
Transcribe ==
    /\ pc = "transcribe"
    /\ transcribeCalls' = Append(transcribeCalls, file_path)
    /\ \/ /\ engineRaised' = "transcribe"
          /\ stderr' = stderr \o <<"transcribing", "error_transcription">>
          /\ Exit(1)
          /\ UNCHANGED <<engineSegs, genFails, language, transcript>>
       \/ \E segs \in SegmentSeqs, fails \in BOOLEAN, lang \in Languages :
             /\ engineSegs' = segs
             /\ genFails' = fails
             /\ language' = lang
             /\ transcript' = <<>>
             /\ stderr' = stderr \o <<"transcribing", "detected_language">>
             /\ pc' = "loop"
             /\ UNCHANGED <<engineRaised, exitCode>>
    /\ UNCHANGED <<argv, file_path, model_size, existsCalls, loaderCalls,
                   loadRaised, genPos, genDrained, result, stdout>>

\* for segment in segments: transcript += segment.text + " "
ForSegment ==
    /\ pc = "loop"
    /\ genPos < Len(engineSegs)
    /\ genPos' = genPos + 1
    /\ transcript' = Accumulate(transcript, engineSegs[genPos + 1])
    /\ UNCHANGED <<argv, pc, file_path, model_size, existsCalls, loaderCalls,
                   loadRaised, transcribeCalls, engineSegs, genFails, genDrained,
                   engineRaised, language, result, stdout, stderr, exitCode>>

\* Variant: the handler prints what was transcribed so far before it exits.
ForRaises_PrintsPartial ==
    /\ pc = "loop"
    /\ genPos = Len(engineSegs)
    /\ genFails
    /\ engineRaised' = "iteration"
    /\ stderr' = Append(stderr, "error_transcription")
    /\ result' = MakeResult(transcript, language)
    /\ stdout' = PrintLine(stdout, JsonDumps(result'))
    /\ Exit(1)
    /\ UNCHANGED <<argv, file_path, model_size, existsCalls, loaderCalls,
                   loadRaised, transcribeCalls, engineSegs, genFails, genPos,
                   genDrained, language, transcript>>

\* the generator raises while the loop asks for the next segment
\* except Exception: print "Error during transcription"; sys.exit(1)
ForRaises ==
    /\ pc = "loop"
    /\ genPos = Len(engineSegs)
    /\ genFails
    /\ engineRaised' = "iteration"
    /\ stderr' = Append(stderr, "error_transcription")
    /\ Exit(1)
    /\ UNCHANGED <<argv, file_path, model_size, existsCalls, loaderCalls,
                   loadRaised, transcribeCalls, engineSegs, genFails, genPos,
                   genDrained, language, transcript, result, stdout>>

\* Variant: the loop may be left before the generator is exhausted (a break).
ForExhausted_Early ==
    /\ pc = "loop"
    /\ genDrained' = (genPos = Len(engineSegs) /\ ~genFails)
    /\ result' = MakeResult(transcript, language)
    /\ pc' = "emit"
    /\ UNCHANGED <<argv, file_path, model_size, existsCalls, loaderCalls,
                   loadRaised, transcribeCalls, engineSegs, genFails, genPos,
                   engineRaised, language, transcript, stdout, stderr, exitCode>>

\* the generator is exhausted: the loop ends
\* result = {"text": transcript.strip(), "language": info.language}
ForExhausted ==
    /\ pc = "loop"
    /\ genPos = Len(engineSegs)
    /\ ~genFails
    /\ genDrained' = TRUE
    /\ result' = MakeResult(transcript, language)
    /\ pc' = "emit"
    /\ UNCHANGED <<argv, file_path, model_size, existsCalls, loaderCalls,
                   loadRaised, transcribeCalls, engineSegs, genFails, genPos,
                   engineRaised, language, transcript, stdout, stderr, exitCode>>

\* print(json.dumps(result)); transcribe() returns and the script ends: exit status 0
Emit ==
    /\ pc = "emit"
    /\ stdout' = PrintLine(stdout, JsonDumps(result))
    /\ Exit(0)
    /\ UNCHANGED <<argv, file_path, model_size, existsCalls, loaderCalls,
                   loadRaised, transcribeCalls, engineSegs, genFails, genPos,
                   genDrained, engineRaised, language, transcript, result, stderr>>

Next ==
    \/ CheckArgs
    \/ ParseArgs
    \/ CheckExists
    \/ LoadModel
    \/ Transcribe
    \/ ForSegment
    \/ ForRaises
    \/ ForExhausted
    \/ Emit

Spec == Init /\ [][Next]_vars

(***************************************************************************)
(* Reading the output back                                                 *)
(***************************************************************************)
\* The character at position i, "EOF" past the end.
CharAt(s, i) == IF i \in 1..Len(s) THEN s[i] ELSE "EOF"

DecodeFail == [ok |-> FALSE, val |-> <<>>, next |-> 0]

\* The character an escape sequence \e stands for.
Unescaped(e) ==
    CASE e = "n" -> "\n"
      [] e = "t" -> "\t"
      [] OTHER   -> e

\* Reads a JSON string literal whose opening quote is at position i - 1.
RECURSIVE DecodeString(_, _, _)
DecodeString(s, i, acc) ==
    LET c == CharAt(s, i) IN
    IF c = "EOF" \/ c = "\n" \/ c = "\t" THEN DecodeFail
    ELSE IF c = "\"" THEN [ok |-> TRUE, val |-> acc, next |-> i + 1]
    ELSE IF c = "\\"
         THEN LET e == CharAt(s, i + 1) IN
              IF e \in {"\"", "\\", "n", "t"}
              THEN DecodeString(s, i + 2, Append(acc, Unescaped(e)))
              ELSE DecodeFail
    ELSE DecodeString(s, i + 1, Append(acc, c))

\* Reads a JSON value at position i: a string or null.
DecodeValue(s, i) ==
    IF CharAt(s, i) = "\""
    THEN LET r == DecodeString(s, i + 1, <<>>) IN
         [ok |-> r.ok, val |-> [type |-> "string", val |-> r.val], next |-> r.next]
    ELSE IF i + 3 <= Len(s) /\ SubSeq(s, i, i + 3) = <<"n", "u", "l", "l">>
    THEN [ok |-> TRUE, val |-> [type |-> "null"], next |-> i + 4]
    ELSE DecodeFail

\* Reads the members of a JSON object, the first key starting at position i.
RECURSIVE DecodeMembers(_, _, _)
DecodeMembers(s, i, acc) ==
    IF CharAt(s, i) # "\"" THEN [ok |-> FALSE, members |-> <<>>]
    ELSE LET k == DecodeString(s, i + 1, <<>>) IN
         IF ~k.ok \/ CharAt(s, k.next) # ":" \/ CharAt(s, k.next + 1) # " "
         THEN [ok |-> FALSE, members |-> <<>>]
         ELSE LET v == DecodeValue(s, k.next + 2) IN
              IF ~v.ok THEN [ok |-> FALSE, members |-> <<>>]
              ELSE LET acc2 == Append(acc, <<k.val, v.val>>) IN
                   IF CharAt(s, v.next) = "}" /\ v.next = Len(s)
                   THEN [ok |-> TRUE, members |-> acc2]
                   ELSE IF CharAt(s, v.next) = "," /\ CharAt(s, v.next + 1) = " "
                   THEN DecodeMembers(s, v.next + 2, acc2)
                   ELSE [ok |-> FALSE, members |-> <<>>]

\* Parses one JSON object with string keys; ok is FALSE when s is not one.
JsonLoads(s) ==
    IF CharAt(s, 1) # "{" THEN [ok |-> FALSE, members |-> <<>>]
    ELSE IF s = <<"{", "}">> THEN [ok |-> TRUE, members |-> <<>>]
    ELSE DecodeMembers(s, 2, <<>>)

JsonKeys(obj) == {obj.members[i][1] : i \in 1..Len(obj.members)}

JsonMember(obj, key) ==
    obj.members[CHOOSE i \in 1..Len(obj.members) : obj.members[i][1] = key][2]

\* stdout holds exactly one line: one newline, at the end.
StdoutIsOneLine ==
    /\ Len(stdout) >= 1
    /\ stdout[Len(stdout)] = "\n"
    /\ \A i \in 1..(Len(stdout) - 1) : stdout[i] # "\n"

StdoutLine == SubSeq(stdout, 1, Len(stdout) - 1)

\* stdout is one line holding a JSON object with exactly the keys text and language.
StdoutIsResultLine ==
    /\ StdoutIsOneLine
    /\ JsonLoads(StdoutLine).ok
    /\ Len(JsonLoads(StdoutLine).members) = 2
    /\ JsonKeys(JsonLoads(StdoutLine)) = {KeyText, KeyLanguage}

EmittedText == JsonMember(JsonLoads(StdoutLine), KeyText)

EmittedLanguage == JsonMember(JsonLoads(StdoutLine), KeyLanguage)

\* The positions of s that hold no whitespace.
InkPositions(s) == {i \in 1..Len(s) : s[i] \notin {" ", "\n", "\t"}}

\* s without its leading and trailing whitespace.
Trimmed(s) ==
    IF InkPositions(s) = {} THEN <<>>
    ELSE LET first == CHOOSE i \in InkPositions(s) : \A j \in InkPositions(s) : i <= j
             last  == CHOOSE i \in InkPositions(s) : \A j \in InkPositions(s) : i >= j
         IN  SubSeq(s, first, last)

\* Every text of segs followed by one space, in the order of segs.
RECURSIVE EachWithSpace(_)
EachWithSpace(segs) ==
    IF segs = <<>> THEN <<>>
    ELSE Head(segs) \o <<" ">> \o EachWithSpace(Tail(segs))

PathGiven == Len(argv) >= 2

Exited == pc = "done"

(***************************************************************************)
(* Claims                                                                  *)
(***************************************************************************)
\* C1: when the path argument names a path that does not exist, the process
\* exits with code 1, nothing is ever written to stdout and the model loader
\* is never invoked.
C1_MissingFileExits1 ==
    (PathGiven /\ FS[argv[2]] = "absent") =>
        /\ stdout = <<>>
        /\ loaderCalls = <<>>
        /\ transcribeCalls = <<>>
        /\ pc \in {"main", "parse", "exists", "done"}
        /\ Exited => exitCode = 1

C1_Witness ==
    /\ PathGiven /\ FS[argv[2]] = "absent"
    /\ existsCalls = <<argv[2]>>
    /\ Exited /\ exitCode = 1

\* C2: if model instantiation raises, whatever the model size, the process
\* exits with code 1, stdout stays empty and the engine's transcribe is
\* never invoked.
C2_LoadFailureExits1 ==
    loadRaised =>
        /\ Exited /\ exitCode = 1
        /\ stdout = <<>>
        /\ transcribeCalls = <<>>

C2_Witness ==
    /\ loadRaised /\ Exited
    /\ loaderCalls = <<"bogus">>
    /\ stderr = <<"loading", "error_loading">>

\* C3: if the engine raises in the transcribe call or while the segments are
\* iterated, also after some segments were consumed, the process exits with
\* code 1 and stdout stays empty: no partial transcript is emitted.
C3_EngineFailureExits1 ==
    engineRaised # "none" =>
        /\ Exited /\ exitCode = 1
        /\ stdout = <<>>

C3_Witness ==
    /\ engineRaised = "iteration"
    /\ genPos >= 1
    /\ transcript # <<>>
    /\ Exited

\* C4: a run with a path argument, an existing file, a successful load and a
\* successful transcription ends with exit code 0 and stdout holding exactly
\* one line, a JSON object with exactly the keys text and language; and in
\* every run stdout received a line if and only if the exit code is 0.
C4_OneJsonLineIffSuccess ==
    Exited =>
        /\ (PathGiven /\ FS[argv[2]] # "absent" /\ ~loadRaised /\ engineRaised = "none")
              => (exitCode = 0 /\ StdoutIsResultLine)
        /\ (stdout # <<>>) <=> (exitCode = 0)
        /\ stdout # <<>> => StdoutIsOneLine

C4_Witness ==
    /\ Exited /\ exitCode = 0
    /\ StdoutIsResultLine
    /\ engineSegs = << <<"\"", "\\", "\n">> >>

\* C5: the emitted text is the whitespace-trimmed concatenation of every
\* segment text followed by one space, in the order the engine produced
\* them; segments "Hello", "world" give "Hello world".
C5_TextIsTrimmedConcatenation ==
    (Exited /\ exitCode = 0) =>
        /\ StdoutIsResultLine
        /\ EmittedText = [type |-> "string", val |-> Trimmed(EachWithSpace(engineSegs))]
        /\ engineSegs = <<Hello, World>> =>
              EmittedText.val = <<"H", "e", "l", "l", "o", " ", "w", "o", "r", "l", "d">>

C5_Witness ==
    /\ Exited /\ exitCode = 0
    /\ engineSegs = <<Hello, World>>
    /\ genPos = 2

\* C6: when the engine yields no segment and does not raise, the run
\* succeeds: the emitted text is the empty string (a string, not null), the
\* JSON line is written and the exit code is 0.
C6_EmptySequenceSucceeds ==
    (Exited /\ transcribeCalls # <<>> /\ engineRaised = "none" /\ engineSegs = <<>>) =>
        /\ exitCode = 0
        /\ StdoutIsResultLine
        /\ EmittedText = [type |-> "string", val |-> <<>>]

C6_Witness ==
    /\ Exited /\ genDrained
    /\ engineSegs = <<>>
    /\ stdout # <<>>

\* C7: the model size passed to the model loader is "small" when the second
\* argument is omitted and otherwise the supplied string, unchanged, the
\* empty string included.
C7_ModelSizeForwarded ==
    \A i \in 1..Len(loaderCalls) :
        loaderCalls[i] = (IF Len(argv) = 2 THEN "small" ELSE argv[3])

C7_Witness ==
    /\ Len(argv) = 3 /\ argv[3] = ""
    /\ loaderCalls = <<"">>

\* C8: with no positional argument the process exits with code 1 and the
\* usage message on stderr, writes nothing to stdout, and reaches neither
\* the existence check nor the model loader.
C8_NoArgumentUsage ==
    ~PathGiven =>
        /\ stdout = <<>>
        /\ existsCalls = <<>>
        /\ loaderCalls = <<>>
        /\ pc \in {"main", "done"}
        /\ Exited => (exitCode = 1 /\ stderr = <<"usage">>)

C8_Witness ==
    /\ ~PathGiven
    /\ Exited
    /\ stderr = <<"usage">>

\* C9 (as stated): every path that reaches the model loader or the engine's
\* transcribe names an existing, readable regular file, never a directory or
\* an unreadable file.
C9_OnlyReadableFilesPass ==
    (loaderCalls # <<>> \/ transcribeCalls # <<>>) => FS[file_path] = "file"

\* C9 (amended): every path that reaches the model loader or the engine's
\* transcribe is the first argument and passed the existence check: it names
\* an existing filesystem entry, which may be a directory or an unreadable
\* file.
C9_OnlyExistingPathsPass ==
    (loaderCalls # <<>> \/ transcribeCalls # <<>>) =>
        /\ file_path = argv[2]
        /\ existsCalls = <<file_path>>
        /\ FS[file_path] \in {"file", "directory", "unreadable"}
        /\ \A i \in 1..Len(transcribeCalls) : transcribeCalls[i] = file_path

C9_Witness ==
    /\ loaderCalls # <<>>
    /\ FS[file_path] = "directory"
    /\ transcribeCalls = <<"recordings">>

\* The phase a position of the script belongs to.
Phase(p) ==
    CASE p = "main"       -> 0
      [] p = "parse"      -> 0
      [] p = "exists"     -> 0
      [] p = "load"       -> 1
      [] p = "transcribe" -> 2
      [] p = "loop"       -> 3
      [] p = "emit"       -> 4
      [] p = "done"       -> 5

\* C10: the phases occur in the order validate, load, infer, format, emit
\* with no step back and no retry: the loader is invoked at most once, the
\* engine's transcribe at most once and only after a successful load, the
\* segments are pulled one by one in order, and the JSON line is written
\* only after the sequence was fully drained.
C10_LinearSinglePass ==
    /\ [](/\ Len(loaderCalls) <= 1
          /\ Len(transcribeCalls) <= 1
          /\ transcribeCalls # <<>> => (loaderCalls # <<>> /\ ~loadRaised)
          /\ genPos <= Len(engineSegs)
          /\ genPos > 0 => transcribeCalls # <<>>
          /\ stdout # <<>> => (genDrained /\ genPos = Len(engineSegs)))
    /\ [][/\ Phase(pc') >= Phase(pc)
          /\ Phase(pc') = Phase(pc) =>
                \/ pc' # pc /\ Phase(pc) = 0
                \/ pc = "loop" /\ genPos' = genPos + 1
          /\ genPos' \in {genPos, genPos + 1}
          /\ genPos' = genPos + 1 => pc = "loop"
          /\ Len(loaderCalls') > Len(loaderCalls) => pc = "load"
          /\ Len(transcribeCalls') > Len(transcribeCalls) => pc = "transcribe"
          /\ stdout' # stdout => pc = "emit"]_vars

C10_Witness ==
    /\ Exited /\ exitCode = 0
    /\ genPos = 2
    /\ Len(loaderCalls) = 1 /\ Len(transcribeCalls) = 1

====
